---- MODULE Spec2Model ----
(***************************************************************************)
(* Model of nerfstudio/pipelines/base_pipeline.py (Pipeline and            *)
(* VanillaPipeline): the evaluation operations with their test-time        *)
(* optimization loops, the aggregation of per-image results, the two loss  *)
(* operations under DDP, get_param_groups, the per-worker constructor with *)
(* its barrier, and the checkpoint loader.                                 *)
(*                                                                         *)
(* Scalars (metric values, scale factors, elapsed times) are exact         *)
(* rationals <<numerator, denominator>> in lowest terms.  A Python dict is *)
(* a function whose DOMAIN is its key set; a Python list is a sequence.    *)
(* A parameter group is represented by the number of optimizer steps       *)
(* applied to it since it was last (re)initialized, 0 being the neutral    *)
(* value.                                                                  *)
(***************************************************************************)
EXTENDS FiniteSets, Integers, Sequences, TLC

\* ------------------------------------------------------------------ bounds
MaxImages == 2      \* largest len(datamanager.eval_dataset) explored
MaxIters == 2       \* largest eval_num_pose_iters / eval_num_appearance_iters
MaxKeys == 2        \* largest number of entries of a loaded checkpoint
MaxStep == 2        \* largest step argument explored
MaxWorldSize == 2   \* largest world_size of the loss operations explored
MaxWorkers == 3     \* largest number of workers constructing a pipeline
MaxGroups == 3      \* one owner provides fewer than MaxGroups parameter groups
MaxCaptures == 2    \* largest len(capture_names) of the benchmark dispatcher
MaxRows == 2        \* largest len(table_rows) of the benchmark dispatcher
MaxGpus == 2        \* number of GPUs of the benchmark machine

\* -------------------------------------------------------------- rationals
RECURSIVE GCD(_, _)
GCD(a, b) == IF b = 0 THEN a ELSE GCD(b, a % b)

Rat(n, d) == LET g == GCD(n, d) IN <<n \div g, d \div g>>

RMul(x, y) == Rat(x[1] * y[1], x[2] * y[2])

\* faulty variant: multiplies instead of dividing
RDiv_times(x, y) == Rat(x[1] * y[1], x[2] * y[2])

RDiv(x, y) == Rat(x[1] * y[2], x[2] * y[1])

RAdd(x, y) == Rat(x[1] * y[2] + y[1] * x[2], x[2] * y[2])

One == <<1, 1>>

\* ------------------------------------------------------------ input sets
\* values of config.eval_image_scale_factor explored (default 0.125)
ScaleFactors == {<<1, 8>>, <<1, 2>>}

\* camera_ray_bundle.shape of eval image idx: (height, width)
ImageShape(i) == IF i % 2 = 0 THEN <<4, 4>> ELSE <<2, 5>>

\* wall-clock durations time() - inner_start explored, in seconds
ElapsedTimes == {<<1, 2>>, <<2, 1>>}

\* wall-clock duration of the native datamanager.get_eval_image(i) call
FetchTime(i) == IF i % 2 = 0 THEN <<1, 4>> ELSE <<1, 1>>

\* what model.get_image_metrics_and_images may hand back: a metrics dict
\* and the key set of an images dict
ModelResponses ==
    { [metrics |-> ("psnr" :> <<20, 1>>), image_keys |-> {"img"}],
      [metrics |-> ("psnr" :> <<30, 1>>), image_keys |-> {"img"}],
      [metrics |-> ("psnr" :> <<20, 1>>), image_keys |-> {"img", "depth"}],
      [metrics |-> ("psnr" :> <<30, 1>>) @@ ("lpips" :> <<1, 4>>),
       image_keys |-> {"img", "depth"}],
      [metrics |-> ("psnr" :> <<20, 1>>) @@ ("image_idx" :> <<7, 1>>),
       image_keys |-> {"img"}],
      [metrics |-> ("psnr" :> <<20, 1>>) @@ ("num_rays" :> <<7, 1>>),
       image_keys |-> {"img"}],
      [metrics |-> ("psnr" :> <<20, 1>>) @@ ("num_rays_per_sec" :> <<7, 1>>),
       image_keys |-> {"img"}],
      [metrics |-> ("psnr" :> <<20, 1>>) @@ ("fps" :> <<7, 1>>),
       image_keys |-> {"img"}] }

\* ------------------------------------------------------------------ state
VARIABLES
    config,            \* VanillaPipelineConfig
    num_images,        \* len(self.datamanager.eval_dataset)
    training,          \* nn.Module.training of the pipeline (and its model)
    cam_scale,         \* cumulative factor applied to eval_ray_generator.cameras
    pose_adjustment,   \* eval_camera_optimizer parameters
    embedding_appearance_eval,  \* model.field.embedding_appearance_eval: <<>> is None
    pc,                \* position inside the running operation
    op,                \* the operation running or last run
    mode_at_call,      \* training flag when the operation was entered
    return_imgs,       \* argument of get_average_eval_image_metrics
    idx,               \* loop variable / image_idx
    shape,             \* (height, width) recorded at the native fetch
    num_rays,          \* height * width
    camera_ray_bundle, \* local: last ray bundle fetched
    batch,             \* local: last ground-truth batch fetched
    native_fetch,      \* the (bundle, batch) pair fetched at line 392
    optimizer,         \* local: the torch.optim.Adam instance
    it,                \* iterations of the running loop completed
    side,              \* random.choice([0, 1]) of the appearance loop
    scale_at_call,     \* cam_scale when the operation was entered
    scale_at_start,    \* cam_scale when the running optimization started
    prev_final,        \* parameter value the previous optimization ended with
    rendered,          \* what the last final render consumed
    metrics_dict_list,
    images_dict_list,
    result,            \* value returned by the operation
    err,               \* exception that ended the operation, "" if none
    world_size,        \* self.world_size
    step,              \* argument of the running operation
    sampler_epoch,     \* epoch of datamanager.train_sampler / eval_sampler
    calls,             \* collaborator calls of the running operation or loop pass
    fetch_time,        \* duration of the native fetch of the running image
    steps_done,        \* optimizer steps taken for the running image
    inner_elapsed,     \* time() - inner_start measured at the last final render
    loss_cols,         \* columns the last appearance pass computed its loss on
    test_mode,         \* self.test_mode
    loaded_state,      \* argument of load_pipeline: (key, value) pairs in dict order
    applied,           \* the dict handed to load_state_dict
    load_pc,           \* position of load_pipeline
    datamanager_params, \* datamanager.get_param_groups()
    model_params,      \* model.get_param_groups()
    param_groups,      \* value returned by get_param_groups
    groups_pc,         \* position of get_param_groups
    ctor_pc,           \* per worker: position inside __init__
    wrapped,           \* per worker: the model is wrapped in DDP
    barriers,          \* per worker: dist.barrier calls entered
    capture_names,     \* argument of main
    table_rows,        \* argument of main
    jobs,              \* main: the commands still to be launched
    gpu_devices_available,  \* main: what is left of the last GPU poll
    command,           \* main: the local every task closure reads
    threads,           \* main: the threads of the running round
    main_pc,           \* position of the main thread
    join_idx,          \* position of "for t in threads: t.join()"
    thread_pc,         \* per thread started so far: its position
    started,           \* per thread: the command built when it was created
    ran,               \* per thread: the command it passed to run_command
    last_poll,         \* what the last GPU poll reported
    jobs_at_poll       \* the job list when the last GPU poll was made

evalVars ==
    <<config, num_images, training, cam_scale, pose_adjustment,
      embedding_appearance_eval, pc, op, mode_at_call, return_imgs, idx,
      shape, num_rays, camera_ray_bundle, batch, native_fetch, optimizer, it,
      side, scale_at_call, scale_at_start, prev_final, rendered,
      metrics_dict_list, images_dict_list, result, err, world_size, step,
      sampler_epoch, calls, fetch_time, steps_done, inner_elapsed, loss_cols>>

loadVars == <<test_mode, loaded_state, applied, load_pc>>

groupVars == <<datamanager_params, model_params, param_groups, groups_pc>>

ctorVars == <<ctor_pc, wrapped, barriers>>

benchVars ==
    <<capture_names, table_rows, jobs, gpu_devices_available, command,
      threads, main_pc, join_idx, thread_pc, started, ran, last_poll,
      jobs_at_poll>>

vars == <<evalVars, loadVars, groupVars, ctorVars, benchVars>>

Neutral == 0

NoBundle == [idx |-> -1, scale_factor |-> One]

NoOptimizer == [target |-> "none", init_val |-> Neutral, steps |-> 0, image |-> -1]

NoLoss == [side |-> -1, width |-> 0, cols |-> {}]

NoRender ==
    [bundle |-> NoBundle, batch |-> NoBundle, training |-> FALSE,
     no_grad |-> FALSE, image |-> -1, metrics |-> <<>>]

ConfigSpace ==
    [eval_optimize_cameras : BOOLEAN,
     eval_num_pose_iters : 0..MaxIters,
     eval_optimize_appearance : BOOLEAN,
     eval_num_appearance_iters : 0..MaxIters,
     eval_image_scale_factor : ScaleFactors]

\* state of a constructed pipeline about to be driven by the trainer, but
\* for its world_size
InitPipeline ==
    /\ config \in ConfigSpace
    /\ num_images \in 0..MaxImages
    /\ training \in BOOLEAN
    /\ cam_scale = One
    /\ pose_adjustment = Neutral
    /\ embedding_appearance_eval = <<>>
    /\ pc = "idle"
    /\ op = "none"
    /\ mode_at_call = training
    /\ return_imgs = FALSE
    /\ idx = 0
    /\ shape = <<0, 0>>
    /\ num_rays = 0
    /\ camera_ray_bundle = NoBundle
    /\ batch = NoBundle
    /\ native_fetch = <<NoBundle, NoBundle>>
    /\ optimizer = NoOptimizer
    /\ it = 0
    /\ side = 0
    /\ scale_at_call = One
    /\ scale_at_start = One
    /\ prev_final = [pose |-> Neutral, appearance |-> Neutral]
    /\ rendered = NoRender
    /\ metrics_dict_list = <<>>
    /\ images_dict_list = <<>>
    /\ result = <<>>
    /\ err = ""
    /\ step = 0
    /\ sampler_epoch = [train |-> 0, eval |-> 0]
    /\ calls = <<>>
    /\ fetch_time = <<0, 1>>
    /\ steps_done = [pose |-> 0, appearance |-> 0]
    /\ inner_elapsed = <<0, 1>>
    /\ loss_cols = NoLoss

\* the image operations never read world_size: a single worker
InitEval ==
    /\ InitPipeline
    /\ world_size = 1

\* no checkpoint is being loaded
LoadIdle ==
    /\ test_mode = "val"
    /\ loaded_state = <<>>
    /\ applied = <<>>
    /\ load_pc = "idle"

\* get_param_groups is not running
GroupsIdle ==
    /\ datamanager_params = <<>>
    /\ model_params = <<>>
    /\ param_groups = <<>>
    /\ groups_pc = "idle"

\* every worker has left __init__: with several workers each wrapped its
\* model and passed the barrier once
Constructed ==
    /\ ctor_pc = [w \in 0..(world_size - 1) |-> "constructed"]
    /\ wrapped = [w \in 0..(world_size - 1) |-> world_size > 1]
    /\ barriers = [w \in 0..(world_size - 1) |->
                      IF world_size > 1 THEN 1 ELSE 0]

NoCommand == [gpu |-> -1, job |-> <<>>]

\* the benchmark script is not running
BenchIdle ==
    /\ capture_names = <<>>
    /\ table_rows = <<>>
    /\ jobs = <<>>
    /\ gpu_devices_available = <<>>
    /\ command = NoCommand
    /\ threads = <<>>
    /\ main_pc = "exit"
    /\ join_idx = 1
    /\ thread_pc = <<>>
    /\ started = <<>>
    /\ ran = <<>>
    /\ last_poll = <<>>
    /\ jobs_at_poll = <<>>

Init == InitEval /\ LoadIdle /\ GroupsIdle /\ Constructed /\ BenchIdle

\* locals of an operation as they are when it is entered
EnterLocals ==
    /\ idx' = 0
    /\ shape' = <<0, 0>>
    /\ num_rays' = 0
    /\ camera_ray_bundle' = NoBundle
    /\ batch' = NoBundle
    /\ native_fetch' = <<NoBundle, NoBundle>>
    /\ optimizer' = NoOptimizer
    /\ it' = 0
    /\ side' = 0
    /\ scale_at_call' = cam_scale
    /\ scale_at_start' = cam_scale
    /\ prev_final' = prev_final
    /\ rendered' = NoRender
    /\ metrics_dict_list' = <<>>
    /\ images_dict_list' = <<>>
    /\ result' = <<>>
    /\ err' = ""
    /\ calls' = <<>>
    /\ fetch_time' = <<0, 1>>
    /\ steps_done' = [pose |-> 0, appearance |-> 0]
    /\ inner_elapsed' = <<0, 1>>
    /\ loss_cols' = NoLoss

CanCall == pc \in {"idle", "done"}

\* ---------------------------------------------------------------- frames
cfgVars == <<config, num_images, world_size>>

paramVars == <<pose_adjustment, embedding_appearance_eval>>

callVars == <<op, mode_at_call, return_imgs, scale_at_call, step>>

fetchVars == <<shape, num_rays, native_fetch, fetch_time>>

listVars == <<metrics_dict_list, images_dict_list>>

logVars == <<sampler_epoch, calls, steps_done, inner_elapsed, loss_cols>>

\* variables of the other operations
restVars == <<loadVars, groupVars, ctorVars, benchVars>>

\* ------------------------------------------------------------ dict helpers
\* faulty variant: the value stored is zero, whatever was computed
SetItem_zero(d, k, v) == (k :> <<0, 1>>) @@ d

\* d[k] = v on a Python dict
SetItem(d, k, v) == (k :> v) @@ d

\* faulty variant: the assertion never fires
AssertFails_never(key, d) == FALSE

\* assert key not in metrics_dict
AssertFails(key, d) == key \in DOMAIN d

\* rescale_output_resolution(factor) on the cumulative scale
rescale_output_resolution(scale, factor) == RMul(scale, factor)

\* faulty variant: the restoring call passes the factor itself
RestoreFactor_same(f) == f

\* the argument 1.0 / eval_image_scale_factor of the restoring call
RestoreFactor(f) == RDiv(One, f)

\* images dict the model builds from the outputs rendered for a ray bundle
ImagesFor(keys, bundle) ==
    [k \in keys |-> [name |-> k, image |-> bundle.idx,
                     scale_factor |-> bundle.scale_factor]]

\* datamanager.get_eval_image(idx, scale_factor): the same record stands for
\* the ray bundle and for the batch aligned with it
get_eval_image(i, scale_factor) == [idx |-> i, scale_factor |-> scale_factor]

\* ---------------------------------------------------- get_eval_loss_dict
\* faulty variant: the operation does not switch to inference mode
EvalLossCall_noeval ==
    /\ CanCall
    /\ op' \in {"Pipeline.get_eval_loss_dict", "VanillaPipeline.get_eval_loss_dict"}
    /\ mode_at_call' = training
    /\ pc' = "eval_loss_body"
    /\ step' \in 0..MaxStep
    /\ return_imgs' = FALSE
    /\ EnterLocals
    /\ UNCHANGED <<restVars, sampler_epoch, cfgVars, training, cam_scale,
                   paramVars>>

\* self.eval(), in Pipeline and in the VanillaPipeline override
EvalLossCall ==
    /\ CanCall
    /\ op' \in {"Pipeline.get_eval_loss_dict", "VanillaPipeline.get_eval_loss_dict"}
    /\ mode_at_call' = training
    /\ training' = FALSE
    /\ pc' = "eval_loss_body"
    /\ step' \in 0..MaxStep
    /\ return_imgs' = FALSE
    /\ EnterLocals
    /\ UNCHANGED <<restVars, sampler_epoch, cfgVars, cam_scale, paramVars>>

\* a collaborator call of a loss operation, with the mode it is made in
LossCall(f, s) == [f |-> f, step |-> s, training |-> training]

\* if self.world_size > 1: of Pipeline.get_eval_loss_dict; the override in
\* VanillaPipeline has no such statement
EvalSetsEpoch == op = "Pipeline.get_eval_loss_dict" /\ world_size > 1

\* next_eval, forward pass, get_metrics_dict, get_loss_dict
EvalCalls ==
    << LossCall("datamanager.next_eval", step),
       LossCall("model.forward", step),
       LossCall("model.get_metrics_dict", step),
       LossCall("model.get_loss_dict", step) >>

\* eval_sampler.set_epoch(step) where the class has it, then next_eval,
\* forward pass, get_metrics_dict, get_loss_dict
EvalLossBody ==
    /\ pc = "eval_loss_body"
    /\ \E r \in ModelResponses :
          result' = <<"model_outputs", "loss_dict", r.metrics>>
    /\ IF EvalSetsEpoch
       THEN /\ sampler_epoch' = [sampler_epoch EXCEPT !.eval = step]
            /\ calls' = <<LossCall("eval_sampler.set_epoch", step)>> \o EvalCalls
       ELSE /\ UNCHANGED sampler_epoch
            /\ calls' = EvalCalls
    /\ pc' = "eval_loss_end"
    /\ UNCHANGED <<restVars, steps_done, inner_elapsed, loss_cols, cfgVars, training, cam_scale, paramVars, callVars,
                   idx, fetchVars, camera_ray_bundle, batch, optimizer, it,
                   side, scale_at_start, prev_final, rendered, listVars, err>>

\* faulty variant: returns in the mode the call was entered in
EvalLossReturn_prior ==
    /\ pc = "eval_loss_end"
    /\ training' = mode_at_call
    /\ pc' = "done"
    /\ UNCHANGED <<restVars, logVars, cfgVars, cam_scale, paramVars, callVars, idx,
                   fetchVars, camera_ray_bundle, batch, optimizer, it, side,
                   scale_at_start, prev_final, rendered, listVars, result,
                   err>>

\* self.train(); return
EvalLossReturn ==
    /\ pc = "eval_loss_end"
    /\ training' = TRUE
    /\ pc' = "done"
    /\ UNCHANGED <<restVars, logVars, cfgVars, cam_scale, paramVars, callVars, idx,
                   fetchVars, camera_ray_bundle, batch, optimizer, it, side,
                   scale_at_start, prev_final, rendered, listVars, result,
                   err>>

\* --------------------------------------------------- get_train_loss_dict
\* metrics dicts model.get_metrics_dict may hand back during training
TrainMetrics ==
    { ("psnr" :> <<20, 1>>),
      ("psnr" :> <<20, 1>>) @@ ("camera_opt_translation" :> <<7, 1>>) }

\* norms of the translation and rotation columns of the train camera group
TrainGroupNorms ==
    { [translation |-> <<0, 1>>, rotation |-> <<0, 1>>],
      [translation |-> <<1, 10>>, rotation |-> <<1, 20>>] }

\* the operation starts; it switches no mode
TrainLossCall ==
    /\ CanCall
    /\ op' \in {"Pipeline.get_train_loss_dict", "VanillaPipeline.get_train_loss_dict"}
    /\ mode_at_call' = training
    /\ pc' = "train_loss_body"
    /\ step' \in 0..MaxStep
    /\ return_imgs' = FALSE
    /\ EnterLocals
    /\ UNCHANGED <<restVars, sampler_epoch, cfgVars, training, cam_scale,
                   paramVars>>

\* if self.world_size > 1 and step: of Pipeline.get_train_loss_dict; the
\* override in VanillaPipeline has no such statement
TrainSetsEpoch ==
    op = "Pipeline.get_train_loss_dict" /\ world_size > 1 /\ step # 0

\* next_train, forward pass, get_metrics_dict, get_loss_dict
TrainCalls ==
    << LossCall("datamanager.next_train", step),
       LossCall("model.forward", step),
       LossCall("model.get_metrics_dict", step),
       LossCall("model.get_loss_dict", step) >>

\* config.datamanager.camera_optimizer.param_group + "_train"
camera_opt_param_group == "camera_opt_train"

\* camera_opt_param_group in self.datamanager.get_param_groups(), a test only
\* the VanillaPipeline override makes
HasTrainGroup ==
    /\ op = "VanillaPipeline.get_train_loss_dict"
    /\ camera_opt_param_group \in DOMAIN datamanager_params

\* the calls of the body from next_train to get_loss_dict, in program order
TrainBodyCalls ==
    IF HasTrainGroup
    THEN << LossCall("datamanager.next_train", step),
            LossCall("model.forward", step),
            LossCall("model.get_metrics_dict", step),
            LossCall("metrics_dict[camera_opt_translation] =", step),
            LossCall("metrics_dict[camera_opt_rotation] =", step),
            LossCall("model.get_loss_dict", step) >>
    ELSE TrainCalls

\* metrics_dict after the camera optimizer diagnostics: the two keys are
\* assigned with no test of what the dict already holds
WithCameraOpt(metrics_dict, norms) ==
    IF HasTrainGroup
    THEN SetItem(SetItem(metrics_dict, "camera_opt_translation",
                         norms.translation),
                 "camera_opt_rotation", norms.rotation)
    ELSE metrics_dict

\* train_sampler.set_epoch(step) where the class has it, then next_train,
\* forward pass, get_metrics_dict, the diagnostics, get_loss_dict; return
TrainLossBody ==
    /\ pc = "train_loss_body"
    /\ \E m \in TrainMetrics, norms \in TrainGroupNorms :
          /\ rendered' = [NoRender EXCEPT !.metrics = m]
          /\ result' = <<"model_outputs",
                         [computed_from |-> WithCameraOpt(m, norms)],
                         WithCameraOpt(m, norms)>>
    /\ IF TrainSetsEpoch
       THEN /\ sampler_epoch' = [sampler_epoch EXCEPT !.train = step]
            /\ calls' = <<LossCall("train_sampler.set_epoch", step)>>
                           \o TrainBodyCalls
       ELSE /\ UNCHANGED sampler_epoch
            /\ calls' = TrainBodyCalls
    /\ pc' = "done"
    /\ UNCHANGED <<restVars, steps_done, inner_elapsed, loss_cols, cfgVars, training,
                   cam_scale, paramVars, callVars, idx, fetchVars,
                   camera_ray_bundle, batch, optimizer, it, side,
                   scale_at_start, prev_final, listVars, err>>

\* -------------------------------------- get_eval_image_metrics_and_images
\* self.eval()
ImgCall ==
    /\ CanCall
    /\ op' = "get_eval_image_metrics_and_images"
    /\ mode_at_call' = training
    /\ training' = FALSE
    /\ return_imgs' = FALSE
    /\ pc' = "img_fetch"
    /\ step' \in 0..MaxStep
    /\ EnterLocals
    /\ UNCHANGED <<restVars, sampler_epoch, cfgVars, cam_scale, paramVars>>

\* image_idx, camera_ray_bundle, batch = datamanager.next_eval_image(step)
ImgFetch ==
    /\ pc = "img_fetch"
    /\ \E i \in 0..(num_images - 1) :
          /\ idx' = i
          /\ camera_ray_bundle' = get_eval_image(i, One)
          /\ batch' = get_eval_image(i, One)
          /\ native_fetch' = <<get_eval_image(i, One), get_eval_image(i, One)>>
          /\ shape' = ImageShape(i)
          /\ num_rays' = ImageShape(i)[1] * ImageShape(i)[2]
    /\ pc' = "img_render"
    /\ UNCHANGED fetch_time
    /\ UNCHANGED <<restVars, logVars, cfgVars, training, cam_scale, paramVars, callVars,
                   optimizer, it, side, scale_at_start, prev_final, rendered,
                   listVars, result, err>>

\* no_grad render, get_image_metrics_and_images, the two asserted injections;
\* len(camera_ray_bundle) of the full-resolution bundle is height * width
ImgRender ==
    /\ pc = "img_render"
    /\ \E r \in ModelResponses :
          /\ rendered' = [bundle |-> camera_ray_bundle, batch |-> batch,
                          training |-> training, no_grad |-> TRUE,
                          image |-> idx,
                          metrics |-> r.metrics]
          /\ LET metrics_dict == r.metrics
                 images_dict == ImagesFor(r.image_keys, camera_ray_bundle)
                 with_idx == SetItem(metrics_dict, "image_idx", <<idx, 1>>)
                 with_rays == SetItem(with_idx, "num_rays",
                                      <<shape[1] * shape[2], 1>>)
             IN  IF AssertFails("image_idx", metrics_dict)
                    \/ AssertFails("num_rays", with_idx)
                 THEN /\ pc' = "error"
                      /\ err' = "AssertionError"
                      /\ result' = <<metrics_dict>>
                 ELSE /\ pc' = "img_return"
                      /\ err' = ""
                      /\ result' = <<with_rays, images_dict>>
    /\ UNCHANGED <<restVars, logVars, cfgVars, training, cam_scale, paramVars, callVars,
                   idx, fetchVars, camera_ray_bundle, batch, optimizer, it,
                   side, scale_at_start, prev_final, listVars>>

\* faulty variant: the operation ends with self.eval()
ImgReturn_eval ==
    /\ pc = "img_return"
    /\ training' = FALSE
    /\ pc' = "done"
    /\ UNCHANGED <<restVars, logVars, cfgVars, cam_scale, paramVars, callVars, idx,
                   fetchVars, camera_ray_bundle, batch, optimizer, it, side,
                   scale_at_start, prev_final, rendered, listVars, result,
                   err>>

\* self.train(); return metrics_dict, images_dict
ImgReturn ==
    /\ pc = "img_return"
    /\ training' = TRUE
    /\ pc' = "done"
    /\ UNCHANGED <<restVars, logVars, cfgVars, cam_scale, paramVars, callVars, idx,
                   fetchVars, camera_ray_bundle, batch, optimizer, it, side,
                   scale_at_start, prev_final, rendered, listVars, result,
                   err>>

\* ------------------------------------------ get_average_eval_image_metrics
\* self.eval(); metrics_dict_list, images_dict_list = [], []
AvgCall ==
    /\ CanCall
    /\ op' = "get_average_eval_image_metrics"
    /\ mode_at_call' = training
    /\ training' = FALSE
    /\ return_imgs' \in BOOLEAN
    /\ step' = 0
    /\ pc' = "avg_loop"
    /\ EnterLocals
    /\ UNCHANGED <<restVars, sampler_epoch, cfgVars, cam_scale, paramVars>>

\* faulty variant: the appearance block is entered first
AfterFetch_appearance_first ==
    IF config.eval_optimize_appearance THEN "avg_app_rescale"
    ELSE IF config.eval_optimize_cameras THEN "avg_pose_reinit"
    ELSE "avg_render"

\* where the loop body goes after the native fetch, and after the pose block
AfterFetch ==
    IF config.eval_optimize_cameras THEN "avg_pose_reinit"
    ELSE IF config.eval_optimize_appearance THEN "avg_app_rescale"
    ELSE "avg_render"

AfterPose ==
    IF config.eval_optimize_appearance THEN "avg_app_rescale" ELSE "avg_render"

\* for idx in range(num_images): get_eval_image(idx); height, width; num_rays
AvgFetch ==
    /\ pc = "avg_loop"
    /\ idx < num_images
    /\ camera_ray_bundle' = get_eval_image(idx, One)
    /\ batch' = get_eval_image(idx, One)
    /\ native_fetch' = <<get_eval_image(idx, One), get_eval_image(idx, One)>>
    /\ shape' = ImageShape(idx)
    /\ num_rays' = ImageShape(idx)[1] * ImageShape(idx)[2]
    /\ fetch_time' = FetchTime(idx)
    /\ calls' = <<>>
    /\ steps_done' = [pose |-> 0, appearance |-> 0]
    /\ loss_cols' = NoLoss
    /\ pc' = AfterFetch
    /\ UNCHANGED <<restVars, sampler_epoch, inner_elapsed, cfgVars, training, cam_scale, paramVars, callVars,
                   idx, optimizer, it, side, scale_at_start, prev_final,
                   rendered, listVars, result, err>>

\* faulty variant: the parameters are not reinitialized
AvgPoseReinit_skip ==
    /\ pc = "avg_pose_reinit"
    /\ pc' = "avg_pose_optimizer"
    /\ UNCHANGED <<restVars, logVars, cfgVars, training, cam_scale, paramVars, callVars,
                   idx, fetchVars, camera_ray_bundle, batch, optimizer, it,
                   side, scale_at_start, prev_final, rendered, listVars,
                   result, err>>

\* datamanager.eval_camera_optimizer.initialize_parameters()
AvgPoseReinit ==
    /\ pc = "avg_pose_reinit"
    /\ pose_adjustment' = Neutral
    /\ pc' = "avg_pose_optimizer"
    /\ UNCHANGED <<restVars, logVars, cfgVars, training, cam_scale,
                   embedding_appearance_eval, callVars, idx, fetchVars,
                   camera_ray_bundle, batch, optimizer, it, side,
                   scale_at_start, prev_final, rendered, listVars, result,
                   err>>

\* optimizer = torch.optim.Adam(param_groups[camera_opt_param_group], ...)
AvgPoseOptimizer ==
    /\ pc = "avg_pose_optimizer"
    /\ optimizer' = [target |-> "pose", init_val |-> pose_adjustment,
                     steps |-> 0, image |-> idx]
    /\ pc' = "avg_pose_rescale"
    /\ UNCHANGED <<restVars, logVars, cfgVars, training, cam_scale, paramVars, callVars,
                   idx, fetchVars, camera_ray_bundle, batch, it, side,
                   scale_at_start, prev_final, rendered, listVars, result,
                   err>>

\* cameras.rescale_output_resolution(eval_image_scale_factor); self.train()
AvgPoseRescale ==
    /\ pc = "avg_pose_rescale"
    /\ scale_at_start' = cam_scale
    /\ cam_scale' = rescale_output_resolution(cam_scale,
                                            config.eval_image_scale_factor)
    /\ training' = TRUE
    /\ it' = 0
    /\ pc' = "avg_pose_loop"
    /\ UNCHANGED <<restVars, logVars, cfgVars, paramVars, callVars, idx, fetchVars,
                   camera_ray_bundle, batch, optimizer, side, prev_final,
                   rendered, listVars, result, err>>

\* a collaborator call made for image i, with the scale factor of the ray
\* bundle it fetches or consumes
Call(f, i, scale_factor) == [f |-> f, image |-> i, scale_factor |-> scale_factor]

\* faulty variant: the optimizer steps before the loss is backpropagated
PoseIterCalls_step_first(i, f) ==
    << Call("optimizer.zero_grad", i, f),
       Call("datamanager.get_eval_image", i, f),
       Call("model.get_outputs_for_camera_ray_bundle", i, f),
       Call("model.get_metrics_dict", i, f),
       Call("model.get_loss_dict", i, f),
       Call("optimizer.step", i, f),
       Call("backward", i, f) >>

\* the calls of one pass of the pose loop, in program order
PoseIterCalls(i, f) ==
    << Call("optimizer.zero_grad", i, f),
       Call("datamanager.get_eval_image", i, f),
       Call("model.get_outputs_for_camera_ray_bundle", i, f),
       Call("model.get_metrics_dict", i, f),
       Call("model.get_loss_dict", i, f),
       Call("backward", i, f),
       Call("optimizer.step", i, f) >>

\* the calls of one pass of the appearance loop, in program order
AppIterCalls(i, f) ==
    << Call("optimizer.zero_grad", i, f),
       Call("datamanager.get_eval_image", i, f),
       Call("model.get_outputs_for_camera_ray_bundle", i, f),
       Call("model.get_metrics_dict", i, f),
       Call("rgb_loss", i, f),
       Call("backward", i, f),
       Call("optimizer.step", i, f) >>

\* one pass of for _ in range(eval_num_pose_iters): zero_grad, scaled fetch,
\* render, metrics, loss, backward, optimizer.step()
AvgPoseIter ==
    /\ pc = "avg_pose_loop"
    /\ it < config.eval_num_pose_iters
    /\ camera_ray_bundle' = get_eval_image(idx, config.eval_image_scale_factor)
    /\ batch' = get_eval_image(idx, config.eval_image_scale_factor)
    /\ pose_adjustment' = pose_adjustment + 1
    /\ optimizer' = [optimizer EXCEPT !.steps = @ + 1]
    /\ it' = it + 1
    /\ calls' = PoseIterCalls(idx, config.eval_image_scale_factor)
    /\ steps_done' = [steps_done EXCEPT !.pose = @ + 1]
    /\ UNCHANGED <<restVars, sampler_epoch, inner_elapsed, loss_cols, cfgVars, training, cam_scale,
                   embedding_appearance_eval, pc, callVars, idx, fetchVars,
                   side, scale_at_start, prev_final, rendered, listVars,
                   result, err>>

\* faulty variant: the pose block does not switch back to inference mode
AvgPoseFinish_noeval ==
    /\ pc = "avg_pose_loop"
    /\ it >= config.eval_num_pose_iters
    /\ cam_scale' = rescale_output_resolution(cam_scale,
                        RestoreFactor(config.eval_image_scale_factor))
    /\ prev_final' = [prev_final EXCEPT !.pose = pose_adjustment]
    /\ pc' = AfterPose
    /\ UNCHANGED <<restVars, logVars, cfgVars, training, paramVars, callVars,
                   idx, fetchVars, camera_ray_bundle, batch, optimizer, it,
                   side, scale_at_start, rendered, listVars, result, err>>

\* cameras.rescale_output_resolution(1.0 / eval_image_scale_factor); self.eval()
AvgPoseFinish ==
    /\ pc = "avg_pose_loop"
    /\ it >= config.eval_num_pose_iters
    /\ cam_scale' = rescale_output_resolution(cam_scale,
                        RestoreFactor(config.eval_image_scale_factor))
    /\ training' = FALSE
    /\ prev_final' = [prev_final EXCEPT !.pose = pose_adjustment]
    /\ pc' = AfterPose
    /\ UNCHANGED <<restVars, logVars, cfgVars, paramVars, callVars, idx, fetchVars,
                   camera_ray_bundle, batch, optimizer, it, side,
                   scale_at_start, rendered, listVars, result, err>>

\* cameras.rescale_output_resolution(eval_image_scale_factor); self.train()
AvgAppRescale ==
    /\ pc = "avg_app_rescale"
    /\ scale_at_start' = cam_scale
    /\ cam_scale' = rescale_output_resolution(cam_scale,
                                            config.eval_image_scale_factor)
    /\ training' = TRUE
    /\ pc' = "avg_app_reinit"
    /\ UNCHANGED <<restVars, logVars, cfgVars, paramVars, callVars, idx, fetchVars,
                   camera_ray_bundle, batch, optimizer, it, side, prev_final,
                   rendered, listVars, result, err>>

\* model.field.initialize_embedding_appearance_eval()
AvgAppReinit ==
    /\ pc = "avg_app_reinit"
    /\ embedding_appearance_eval' = <<Neutral>>
    /\ pc' = "avg_app_optimizer"
    /\ UNCHANGED <<restVars, logVars, cfgVars, training, cam_scale, pose_adjustment,
                   callVars, idx, fetchVars, camera_ray_bundle, batch,
                   optimizer, it, side, scale_at_start, prev_final, rendered,
                   listVars, result, err>>

\* optimizer = torch.optim.Adam(appearance_parameters, ...);
\* side = random.choice([0, 1]); half_width; rgb_loss
AvgAppOptimizer ==
    /\ pc = "avg_app_optimizer"
    /\ optimizer' = [target |-> "appearance",
                     init_val |-> embedding_appearance_eval[1],
                     steps |-> 0, image |-> idx]
    /\ side' \in {0, 1}
    /\ it' = 0
    /\ pc' = "avg_app_loop"
    /\ UNCHANGED <<restVars, logVars, cfgVars, training, cam_scale, paramVars, callVars,
                   idx, fetchVars, camera_ray_bundle, batch, scale_at_start,
                   prev_final, rendered, listVars, result, err>>

\* width of the image datamanager.get_eval_image(idx, scale_factor) hands
\* back: the native width scaled and truncated to an integer
ScaledWidth(width, f) == (width * f[1]) \div f[2]

\* half_width = width // 2, width being the native width recorded at l.395
half_width(width) == width \div 2

\* columns of image[:, :half_width] (side 0) and image[:, half_width:]
\* (side 1) of an image of the given width
LossColumns(s, half, image_width) ==
    IF s = 0
    THEN {c \in 0..(image_width - 1) : c < half}
    ELSE {c \in 0..(image_width - 1) : c >= half}

\* one pass of for _ in range(eval_num_appearance_iters)
AvgAppIter ==
    /\ pc = "avg_app_loop"
    /\ it < config.eval_num_appearance_iters
    /\ camera_ray_bundle' = get_eval_image(idx, config.eval_image_scale_factor)
    /\ batch' = get_eval_image(idx, config.eval_image_scale_factor)
    /\ embedding_appearance_eval' = <<embedding_appearance_eval[1] + 1>>
    /\ optimizer' = [optimizer EXCEPT !.steps = @ + 1]
    /\ it' = it + 1
    /\ calls' = AppIterCalls(idx, config.eval_image_scale_factor)
    /\ steps_done' = [steps_done EXCEPT !.appearance = @ + 1]
    /\ loss_cols' = [side |-> side,
                     width |-> ScaledWidth(shape[2],
                                           config.eval_image_scale_factor),
                     cols |-> LossColumns(side, half_width(shape[2]),
                                 ScaledWidth(shape[2],
                                             config.eval_image_scale_factor))]
    /\ UNCHANGED <<restVars, sampler_epoch, inner_elapsed, cfgVars, training, cam_scale, pose_adjustment, pc,
                   callVars, idx, fetchVars, side, scale_at_start, prev_final,
                   rendered, listVars, result, err>>

\* faulty variant: the embedding is left in place
AvgAppFinish_keep ==
    /\ pc = "avg_app_loop"
    /\ it >= config.eval_num_appearance_iters
    /\ cam_scale' = rescale_output_resolution(cam_scale,
                        RestoreFactor(config.eval_image_scale_factor))
    /\ prev_final' = [prev_final EXCEPT !.appearance = embedding_appearance_eval[1]]
    /\ training' = FALSE
    /\ pc' = "avg_render"
    /\ UNCHANGED <<restVars, logVars, cfgVars, paramVars, callVars, idx,
                   fetchVars, camera_ray_bundle, batch, optimizer, it, side,
                   scale_at_start, rendered, listVars, result, err>>

\* rescale by 1.0 / eval_image_scale_factor; embedding_appearance_eval = None;
\* self.eval()
AvgAppFinish ==
    /\ pc = "avg_app_loop"
    /\ it >= config.eval_num_appearance_iters
    /\ cam_scale' = rescale_output_resolution(cam_scale,
                        RestoreFactor(config.eval_image_scale_factor))
    /\ prev_final' = [prev_final EXCEPT !.appearance = embedding_appearance_eval[1]]
    /\ embedding_appearance_eval' = <<>>
    /\ training' = FALSE
    /\ pc' = "avg_render"
    /\ UNCHANGED <<restVars, logVars, cfgVars, pose_adjustment, callVars, idx,
                   fetchVars, camera_ray_bundle, batch, optimizer, it, side,
                   scale_at_start, rendered, listVars, result, err>>

\* no_grad render of camera_ray_bundle, get_image_metrics_and_images(outputs,
\* batch), the asserted injections of num_rays_per_sec and fps, the appends
AvgRender ==
    /\ pc = "avg_render"
    /\ \E r \in ModelResponses, elapsed \in ElapsedTimes :
          /\ rendered' = [bundle |-> camera_ray_bundle, batch |-> batch,
                          training |-> training, no_grad |-> TRUE,
                          image |-> idx,
                          metrics |-> r.metrics]
          /\ inner_elapsed' = elapsed
          /\ LET metrics_dict == r.metrics
                 images_dict == ImagesFor(r.image_keys, camera_ray_bundle)
                 with_rps == SetItem(metrics_dict, "num_rays_per_sec",
                                     RDiv(<<num_rays, 1>>, elapsed))
                 with_fps == SetItem(with_rps, "fps",
                                     RDiv(with_rps["num_rays_per_sec"],
                                          <<shape[1] * shape[2], 1>>))
             IN  IF AssertFails("num_rays_per_sec", metrics_dict)
                    \/ AssertFails("fps", with_rps)
                 THEN /\ pc' = "error"
                      /\ err' = "AssertionError"
                      /\ result' = <<metrics_dict>>
                      /\ UNCHANGED <<idx, listVars>>
                 ELSE /\ metrics_dict_list' = Append(metrics_dict_list, with_fps)
                      /\ images_dict_list' = Append(images_dict_list, images_dict)
                      /\ idx' = idx + 1
                      /\ pc' = "avg_loop"
                      /\ UNCHANGED <<result, err>>
    /\ UNCHANGED <<restVars, sampler_epoch, calls, steps_done, loss_cols, cfgVars, training, cam_scale, paramVars, callVars,
                   fetchVars, camera_ray_bundle, batch, optimizer, it, side,
                   scale_at_start, prev_final>>

RECURSIVE SumRat(_)
SumRat(values) ==
    IF values = <<>> THEN <<0, 1>>
    ELSE RAdd(Head(values), SumRat(Tail(values)))

\* faulty variant: the sum is not divided by the number of values
Mean_sum(values) == SumRat(values)

\* float(torch.mean(torch.tensor(values)))
Mean(values) == RDiv(SumRat(values), <<Len(values), 1>>)

\* the comprehension [d[key] for d in dict_list] raises KeyError
MissingKey(dict_list) ==
    \E key \in DOMAIN dict_list[1] :
        \E i \in 1..Len(dict_list) : key \notin DOMAIN dict_list[i]

\* metrics_dict[key] = mean over the list, for key in metrics_dict_list[0]
AverageMetrics(dict_list) ==
    [key \in DOMAIN dict_list[1] |->
        Mean([i \in 1..Len(dict_list) |-> dict_list[i][key]])]

\* faulty variant: the images are stacked last to first
StackImages_reversed(dict_list) ==
    [key \in DOMAIN dict_list[1] |->
        [i \in 1..Len(dict_list) |-> dict_list[Len(dict_list) + 1 - i][key]]]

\* images_dict[key] = torch.stack([...], dim=0), for key in images_dict_list[0]
StackImages(dict_list) ==
    [key \in DOMAIN dict_list[1] |->
        [i \in 1..Len(dict_list) |-> dict_list[i][key]]]

\* the code after the loop: average, stack, self.train(), return
AvgAggregate ==
    /\ pc = "avg_loop"
    /\ idx >= num_images
    /\ IF metrics_dict_list = <<>>
       THEN /\ pc' = "error"
            /\ err' = "IndexError"
            /\ UNCHANGED <<training, result>>
       ELSE IF MissingKey(metrics_dict_list) \/ MissingKey(images_dict_list)
       THEN /\ pc' = "error"
            /\ err' = "KeyError"
            /\ UNCHANGED <<training, result>>
       ELSE /\ training' = TRUE
            /\ result' = IF return_imgs
                         THEN <<AverageMetrics(metrics_dict_list),
                                StackImages(images_dict_list)>>
                         ELSE <<AverageMetrics(metrics_dict_list)>>
            /\ pc' = "done"
            /\ UNCHANGED err
    /\ UNCHANGED <<restVars, logVars, cfgVars, cam_scale, paramVars, callVars, idx,
                   fetchVars, camera_ray_bundle, batch, optimizer, it, side,
                   scale_at_start, prev_final, rendered, listVars>>

\* positions at which the next statement calls into the data manager, the
\* model, the cameras or the optimizer
RaisePcs ==
    {"train_loss_body", "eval_loss_body", "img_fetch", "img_render", "avg_loop",
     "avg_pose_reinit", "avg_pose_optimizer", "avg_pose_rescale",
     "avg_pose_loop", "avg_app_rescale", "avg_app_reinit",
     "avg_app_optimizer", "avg_app_loop", "avg_render"}

\* the frame of an operation left by an exception: its locals are gone
DropLocals ==
    /\ idx' = 0
    /\ shape' = <<0, 0>>
    /\ num_rays' = 0
    /\ camera_ray_bundle' = NoBundle
    /\ batch' = NoBundle
    /\ native_fetch' = <<NoBundle, NoBundle>>
    /\ optimizer' = NoOptimizer
    /\ it' = 0
    /\ side' = 0
    /\ rendered' = NoRender
    /\ metrics_dict_list' = <<>>
    /\ images_dict_list' = <<>>
    /\ result' = <<>>
    /\ calls' = <<>>
    /\ fetch_time' = <<0, 1>>
    /\ steps_done' = [pose |-> 0, appearance |-> 0]
    /\ inner_elapsed' = <<0, 1>>
    /\ loss_cols' = NoLoss

\* faulty variant: the mode of the call is put back before the exception
\* leaves the operation
Raise_restore ==
    /\ pc \in RaisePcs
    /\ pc' = "error"
    /\ err' = "RuntimeError"
    /\ training' = mode_at_call
    /\ DropLocals
    /\ UNCHANGED <<restVars, sampler_epoch, cfgVars, cam_scale,
                   paramVars, callVars, scale_at_start, prev_final>>

\* a collaborator raises: no try/finally surrounds any of the calls, so the
\* exception leaves the operation with the object state as it stands
Raise ==
    /\ pc \in RaisePcs
    /\ pc' = "error"
    /\ err' = "RuntimeError"
    /\ DropLocals
    /\ UNCHANGED <<restVars, sampler_epoch, cfgVars, training, cam_scale,
                   paramVars, callVars, scale_at_start, prev_final>>

Next ==
    \/ EvalLossCall
    \/ EvalLossBody
    \/ EvalLossReturn
    \/ ImgCall
    \/ ImgFetch
    \/ ImgRender
    \/ ImgReturn
    \/ AvgCall
    \/ AvgFetch
    \/ AvgPoseReinit
    \/ AvgPoseOptimizer
    \/ AvgPoseRescale
    \/ AvgPoseIter
    \/ AvgPoseFinish
    \/ AvgAppRescale
    \/ AvgAppReinit
    \/ AvgAppOptimizer
    \/ AvgAppIter
    \/ AvgAppFinish
    \/ AvgRender
    \/ AvgAggregate
    \/ Raise

Spec == Init /\ [][Next]_vars

\* ------------------------------------------------------------ load_pipeline
\* A key is the sequence of its dot-separated components:
\* <<"module", "model", "w">> is "module.model.w".

\* components that, followed by a dot, end in the text "module."
MarkerComponents == {"module", "submodule", "modmodule"}

\* what is left of such a component once "module." is cut out
BeforeMarker(c) ==
    CASE c = "module" -> ""
      [] c = "submodule" -> "sub"
      [] c = "modmodule" -> "mod"

\* key.replace("module.", ""): every occurrence found scanning left to right
\* is cut out, and the text before it is glued to the text after it
RECURSIVE Replace(_, _)
Replace(key, pending) ==
    IF Len(key) = 1 THEN <<pending \o key[1]>>
    ELSE IF key[1] \in MarkerComponents
    THEN Replace(Tail(key), pending \o BeforeMarker(key[1]))
    ELSE <<pending \o key[1]>> \o Replace(Tail(key), "")

\* faulty variant: only a leading "module." is cut out
StripMarker_prefix(key) ==
    IF Len(key) > 1 /\ key[1] = "module" THEN Tail(key) ELSE key

StripMarker(key) == Replace(key, "")

\* the dict comprehension over loaded_state.items()
RECURSIVE Renamed(_)
Renamed(items) ==
    IF items = <<>> THEN <<>>
    ELSE LET last == items[Len(items)]
         IN  SetItem(Renamed(SubSeq(items, 1, Len(items) - 1)),
                     StripMarker(last[1]), last[2])

PrunedKeys ==
    { <<"datamanager", "train_camera_optimizer", "pose_adjustment">>,
      <<"datamanager", "train_ray_generator", "image_coords">>,
      <<"datamanager", "train_ray_generator", "pose_optimizer", "pose_adjustment">>,
      <<"datamanager", "eval_camera_optimizer", "pose_adjustment">>,
      <<"datamanager", "eval_ray_generator", "image_coords">>,
      <<"datamanager", "eval_ray_generator", "pose_optimizer", "pose_adjustment">> }

\* faulty variant: nothing is popped
Pop_none(state, keys) == state

\* the six state.pop(key, None) calls
Pop(state, keys) == [k \in (DOMAIN state) \ keys |-> state[k]]

\* keys a checkpoint may hold
CheckpointKeys ==
    PrunedKeys \cup
    { <<"module", "model", "w">>,
      <<"model", "w">>,
      <<"_model", "module", "field", "w">>,
      <<"model", "submodule", "w">>,
      <<"model", "module">>,
      <<"modmodule", "ule", "w">>,
      <<"module", "datamanager", "eval_camera_optimizer", "pose_adjustment">>,
      <<"datamanager", "module", "train_ray_generator", "image_coords">> }

TensorValues == {1, 2}

TestModes == {"val", "test", "inference"}

\* a checkpoint is the state dict of one module tree: its keys are distinct,
\* and no two of them differ only by wrapper markers
Checkpoints ==
    { items \in UNION { [1..n -> CheckpointKeys \X TensorValues] : n \in 0..MaxKeys } :
        \A i, j \in 1..Len(items) :
            i # j => StripMarker(items[i][1]) # StripMarker(items[j][1]) }

DefaultConfig ==
    [eval_optimize_cameras |-> FALSE, eval_num_pose_iters |-> 0,
     eval_optimize_appearance |-> FALSE, eval_num_appearance_iters |-> 0,
     eval_image_scale_factor |-> <<1, 8>>]

InitLoad ==
    /\ InitEval
    /\ config = DefaultConfig
    /\ num_images = 0
    /\ training = TRUE
    /\ test_mode \in TestModes
    /\ loaded_state \in Checkpoints
    /\ applied = <<>>
    /\ load_pc = "idle"
    /\ GroupsIdle
    /\ Constructed
    /\ BenchIdle

\* load_pipeline(loaded_state) up to the call of load_state_dict(state)
LoadPipeline ==
    /\ load_pc = "idle"
    /\ LET state == Renamed(loaded_state)
       IN  applied' = IF test_mode = "inference"
                      THEN Pop(state, PrunedKeys)
                      ELSE state
    /\ load_pc' = "loaded"
    /\ UNCHANGED <<benchVars, evalVars, groupVars, ctorVars, test_mode, loaded_state>>

NextLoad == LoadPipeline

SpecLoad == InitLoad /\ [][NextLoad]_vars

\* ----------------------------------------- the loss operations under DDP
\* what datamanager.get_param_groups() may hold while training: no camera
\* group, the train group, or another group only
TrainGroupDicts ==
    { [name \in names |-> <<"datamanager", name>>] :
          names \in {{}, {camera_opt_param_group}, {"camera_opt_eval"}} }

\* a pipeline constructed with any world_size, driven through its two loss
\* operations by the trainer
InitLoss ==
    /\ InitPipeline
    /\ config = DefaultConfig
    /\ num_images = 0
    /\ world_size \in 1..MaxWorldSize
    /\ LoadIdle
    /\ BenchIdle
    /\ datamanager_params \in TrainGroupDicts
    /\ model_params = <<>>
    /\ param_groups = <<>>
    /\ groups_pc = "idle"
    /\ Constructed

NextLoss ==
    \/ TrainLossCall
    \/ TrainLossBody
    \/ EvalLossCall
    \/ EvalLossBody
    \/ EvalLossReturn
    \/ Raise

SpecLoss == InitLoss /\ [][NextLoss]_vars

\* -------------------------------------------------------- get_param_groups
GroupNames == {"camera_opt", "fields", "proposal_networks", "encodings"}

\* a Dict[str, List[Parameter]] of one owner: the value tells whose it is
GroupDicts(owner) ==
    { [name \in names |-> <<owner, name>>] :
          names \in {n \in SUBSET GroupNames : Cardinality(n) < MaxGroups} }

\* {**a, **b}
Merge(a, b) ==
    [k \in DOMAIN a \cup DOMAIN b |-> IF k \in DOMAIN b THEN b[k] ELSE a[k]]

InitParams ==
    /\ InitEval
    /\ config = DefaultConfig
    /\ num_images = 0
    /\ training = TRUE
    /\ LoadIdle
    /\ BenchIdle
    /\ Constructed
    /\ datamanager_params \in GroupDicts("datamanager")
    /\ model_params \in GroupDicts("model")
    /\ param_groups = <<>>
    /\ groups_pc = "idle"

\* get_param_groups(): the two dicts merged and returned; no statement of
\* it can fail
GetParamGroups ==
    /\ groups_pc = "idle"
    /\ param_groups' = Merge(datamanager_params, model_params)
    /\ groups_pc' = "returned"
    /\ UNCHANGED <<benchVars, evalVars, loadVars, ctorVars, datamanager_params,
                   model_params>>

NextParams == GetParamGroups

SpecParams == InitParams /\ [][NextParams]_vars

\* ------------------------------------------------ VanillaPipeline.__init__
\* One pipeline is constructed per worker, every worker being given the
\* same world_size and its own local_rank.
Workers == 0..(world_size - 1)

InitCtor ==
    /\ InitPipeline
    /\ config = DefaultConfig
    /\ num_images = 0
    /\ training = TRUE
    /\ world_size \in 1..MaxWorkers
    /\ LoadIdle
    /\ BenchIdle
    /\ GroupsIdle
    /\ ctor_pc = [w \in Workers |-> "start"]
    /\ wrapped = [w \in Workers |-> FALSE]
    /\ barriers = [w \in Workers |-> 0]

\* config.datamanager.setup(...); datamanager.to(device);
\* assert datamanager.train_dataset is not None, "Missing input dataset"
CtorDatamanager(w) ==
    /\ ctor_pc[w] = "start"
    /\ \E train_dataset_present \in BOOLEAN :
          ctor_pc' = [ctor_pc EXCEPT ![w] = IF train_dataset_present
                                            THEN "datamanager_ready"
                                            ELSE "failed"]
    /\ UNCHANGED <<benchVars, evalVars, loadVars, groupVars, wrapped, barriers>>

\* config.model.setup(...); model.to(device)
CtorModel(w) ==
    /\ ctor_pc[w] = "datamanager_ready"
    /\ ctor_pc' = [ctor_pc EXCEPT ![w] = "model_ready"]
    /\ UNCHANGED <<benchVars, evalVars, loadVars, groupVars, wrapped, barriers>>

\* self.world_size = world_size; if world_size > 1: wrap the model in DDP
\* and enter dist.barrier, which blocks
CtorWrap(w) ==
    /\ ctor_pc[w] = "model_ready"
    /\ IF world_size > 1
       THEN /\ wrapped' = [wrapped EXCEPT ![w] = TRUE]
            /\ barriers' = [barriers EXCEPT ![w] = @ + 1]
            /\ ctor_pc' = [ctor_pc EXCEPT ![w] = "barrier"]
       ELSE /\ ctor_pc' = [ctor_pc EXCEPT ![w] = "constructed"]
            /\ UNCHANGED <<wrapped, barriers>>
    /\ UNCHANGED <<benchVars, evalVars, loadVars, groupVars>>

\* faulty variant: the barrier lets a worker through at once
CtorLeave_nowait(w) ==
    /\ ctor_pc[w] = "barrier"
    /\ ctor_pc' = [ctor_pc EXCEPT ![w] = "constructed"]
    /\ UNCHANGED <<benchVars, evalVars, loadVars, groupVars, wrapped, barriers>>

\* dist.barrier returns once every worker of the group has entered it
CtorLeave(w) ==
    /\ ctor_pc[w] = "barrier"
    /\ \A v \in Workers : barriers[v] >= 1
    /\ ctor_pc' = [ctor_pc EXCEPT ![w] = "constructed"]
    /\ UNCHANGED <<benchVars, evalVars, loadVars, groupVars, wrapped, barriers>>

NextCtor ==
    \/ \E w \in Workers : CtorDatamanager(w)
    \/ \E w \in Workers : CtorModel(w)
    \/ \E w \in Workers : CtorWrap(w)
    \/ \E w \in Workers : CtorLeave(w)

SpecCtor == InitCtor /\ [][NextCtor]_vars

\* --------------------------------- benchmark_nerfstudio_paper.py: main
\* A job is the pair (capture_name, table_row_name) its command is built
\* from; the command launched is the job prefixed with CUDA_VISIBLE_DEVICES.
CaptureNames == <<"bicycle", "garden", "stump">>

TableRowNames == <<"nerfacto", "w/o-pose", "w/o-app">>

\* for capture_name in capture_names: for ... in table_rows: jobs.append
JobList(captures, rows) ==
    IF Len(rows) = 0 THEN <<>>
    ELSE [k \in 1..(Len(captures) * Len(rows)) |->
             <<captures[((k - 1) \div Len(rows)) + 1],
               rows[((k - 1) % Len(rows)) + 1]>>]

\* the ids of a set in increasing order
RECURSIVE Ascending(_)
Ascending(S) ==
    IF S = {} THEN <<>>
    ELSE LET m == CHOOSE x \in S : \A y \in S : x <= y
         IN  <<m>> \o Ascending(S \ {m})

\* GPUtil.getAvailable(order="first", ...): any of the GPUs, lowest id first
GpuPolls == {Ascending(S) : S \in SUBSET (0..(MaxGpus - 1))}

\* f"CUDA_VISIBLE_DEVICES={gpu} " + job
CommandFor(gpu, job) == [gpu |-> gpu, job |-> job]

\* the pipeline is idle; main has been called with its two lists
InitBench ==
    /\ InitEval
    /\ config = DefaultConfig
    /\ num_images = 0
    /\ training = TRUE
    /\ LoadIdle
    /\ GroupsIdle
    /\ Constructed
    /\ capture_names \in {SubSeq(CaptureNames, 1, n) : n \in 0..MaxCaptures}
    /\ table_rows \in {SubSeq(TableRowNames, 1, n) : n \in 0..MaxRows}
    /\ jobs = <<>>
    /\ gpu_devices_available = <<>>
    /\ command = NoCommand
    /\ threads = <<>>
    /\ main_pc = "build"
    /\ join_idx = 1
    /\ thread_pc = <<>>
    /\ started = <<>>
    /\ ran = <<>>
    /\ last_poll = <<>>
    /\ jobs_at_poll = <<>>

pipelineVars == <<evalVars, loadVars, groupVars, ctorVars>>

inputVars == <<capture_names, table_rows>>

threadVars == <<thread_pc, started, ran>>

pollVars == <<last_poll, jobs_at_poll>>

\* jobs = []; the two nested loops appending one command per pair
BuildJobs ==
    /\ main_pc = "build"
    /\ jobs' = JobList(capture_names, table_rows)
    /\ main_pc' = "outer"
    /\ UNCHANGED <<pipelineVars, inputVars, gpu_devices_available, command,
                   threads, join_idx, threadVars, pollVars>>

\* while jobs: gpu_devices_available = GPUtil.getAvailable(...); threads = []
MainPollSome ==
    /\ main_pc = "outer"
    /\ jobs # <<>>
    /\ \E poll \in GpuPolls \ {<<>>} :
          /\ gpu_devices_available' = poll
          /\ last_poll' = poll
    /\ jobs_at_poll' = jobs
    /\ threads' = <<>>
    /\ main_pc' = "inner"
    /\ UNCHANGED <<pipelineVars, inputVars, jobs, command, join_idx,
                   threadVars>>

\* the same statements when the poll reports no GPU
MainPollNone ==
    /\ main_pc = "outer"
    /\ jobs # <<>>
    /\ gpu_devices_available' = <<>>
    /\ last_poll' = <<>>
    /\ jobs_at_poll' = jobs
    /\ threads' = <<>>
    /\ main_pc' = "inner"
    /\ UNCHANGED <<pipelineVars, inputVars, jobs, command, join_idx,
                   threadVars>>

\* one pass of while gpu_devices_available and jobs: the two pops, the
\* assignment of command, def task, the thread created and started, and
\* time.sleep(5), which orders nothing between the threads
MainLaunch ==
    /\ main_pc = "inner"
    /\ gpu_devices_available # <<>>
    /\ jobs # <<>>
    /\ gpu_devices_available' = Tail(gpu_devices_available)
    /\ jobs' = Tail(jobs)
    /\ command' = CommandFor(Head(gpu_devices_available), Head(jobs))
    /\ threads' = Append(threads, Len(thread_pc) + 1)
    /\ thread_pc' = Append(thread_pc, "started")
    /\ started' = Append(started,
                         CommandFor(Head(gpu_devices_available), Head(jobs)))
    /\ ran' = Append(ran, NoCommand)
    /\ UNCHANGED <<pipelineVars, inputVars, main_pc, join_idx, pollVars>>

\* the inner while ends: on to for t in threads
MainLaunched ==
    /\ main_pc = "inner"
    /\ gpu_devices_available = <<>> \/ jobs = <<>>
    /\ join_idx' = 1
    /\ main_pc' = "join"
    /\ UNCHANGED <<pipelineVars, inputVars, jobs, gpu_devices_available,
                   command, threads, threadVars, pollVars>>

\* faulty variant: join returns whether or not the thread has finished
MainJoin_nowait ==
    /\ main_pc = "join"
    /\ join_idx <= Len(threads)
    /\ join_idx' = join_idx + 1
    /\ UNCHANGED <<pipelineVars, inputVars, jobs, gpu_devices_available,
                   command, threads, main_pc, threadVars, pollVars>>

\* t.join(): returns once thread t has finished
MainJoin ==
    /\ main_pc = "join"
    /\ join_idx <= Len(threads)
    /\ thread_pc[threads[join_idx]] = "finished"
    /\ join_idx' = join_idx + 1
    /\ UNCHANGED <<pipelineVars, inputVars, jobs, gpu_devices_available,
                   command, threads, main_pc, threadVars, pollVars>>

\* the for loop ends; print("Finished all threads"); back to while jobs
MainJoined ==
    /\ main_pc = "join"
    /\ join_idx > Len(threads)
    /\ main_pc' = "outer"
    /\ UNCHANGED <<pipelineVars, inputVars, jobs, gpu_devices_available,
                   command, threads, join_idx, threadVars, pollVars>>

\* while jobs: is false; main returns
MainExit ==
    /\ main_pc = "outer"
    /\ jobs = <<>>
    /\ main_pc' = "exit"
    /\ UNCHANGED <<pipelineVars, inputVars, jobs, gpu_devices_available,
                   command, threads, join_idx, threadVars, pollVars>>

\* task() of thread t reaches run_command(command): command is looked up in
\* main's frame when the call is made, not when the thread was created
ThreadRun(t) ==
    /\ thread_pc[t] = "started"
    /\ ran' = [ran EXCEPT ![t] = command]
    /\ thread_pc' = [thread_pc EXCEPT ![t] = "running"]
    /\ UNCHANGED <<pipelineVars, inputVars, jobs, gpu_devices_available,
                   command, threads, main_pc, join_idx, started, pollVars>>

\* run_command returns; the last print; the thread ends
ThreadFinish(t) ==
    /\ thread_pc[t] = "running"
    /\ thread_pc' = [thread_pc EXCEPT ![t] = "finished"]
    /\ UNCHANGED <<pipelineVars, inputVars, jobs, gpu_devices_available,
                   command, threads, main_pc, join_idx, started, ran,
                   pollVars>>

NextBench ==
    \/ BuildJobs
    \/ MainPollSome
    \/ MainPollNone
    \/ MainLaunch
    \/ MainLaunched
    \/ MainJoin
    \/ MainJoined
    \/ MainExit
    \/ \E t \in 1..Len(thread_pc) : ThreadRun(t)
    \/ \E t \in 1..Len(thread_pc) : ThreadFinish(t)

SpecBench == InitBench /\ [][NextBench]_vars

\* The main thread keeps running and every run_command returns (weak
\* fairness of the steps of main and of the threads); GPUtil reports no GPU
\* only finitely often in a row while jobs remain (strong fairness of a
\* poll that finds one).
BenchFairness ==
    /\ WF_vars(BuildJobs)
    /\ SF_vars(MainPollSome)
    /\ WF_vars(MainLaunch)
    /\ WF_vars(MainLaunched)
    /\ WF_vars(MainJoin)
    /\ WF_vars(MainJoined)
    /\ WF_vars(MainExit)
    /\ WF_vars(\E t \in 1..Len(thread_pc) : ThreadRun(t))
    /\ WF_vars(\E t \in 1..Len(thread_pc) : ThreadFinish(t))

SpecBenchLive == InitBench /\ [][NextBench]_vars /\ BenchFairness

\* ================================================================== claims
InAverage == op = "get_average_eval_image_metrics"

InImage == op = "get_eval_image_metrics_and_images"

EvalLossOps ==
    {"Pipeline.get_eval_loss_dict", "VanillaPipeline.get_eval_loss_dict"}

\* C1: in get_average_eval_image_metrics, whenever no pose or appearance
\* optimization is under way (it has not started or it has completed), the
\* cumulative scale of the eval cameras equals its value before the
\* optimization started and its value when the operation was entered.
C1_ScaleRoundTrip ==
    (InAverage /\ pc \in {"avg_loop", "avg_pose_reinit", "avg_pose_optimizer",
                          "avg_pose_rescale", "avg_app_rescale", "avg_render",
                          "done"})
    => (cam_scale = scale_at_start /\ cam_scale = scale_at_call)

C1_Witness ==
    /\ InAverage
    /\ pc = "avg_render"
    /\ idx = 1
    /\ optimizer.image = 1
    /\ optimizer.steps >= 1
    /\ cam_scale = One

\* C2: every optimizer is constructed over a parameter group holding its
\* neutral value, and inside a loop the group holds exactly the steps of the
\* running image's optimizer, whatever the previous image ended with.
C2_ReinitBeforeOptimizer ==
    /\ optimizer.target # "none" => optimizer.init_val = Neutral
    /\ pc \in {"avg_pose_optimizer", "avg_pose_rescale"}
          => pose_adjustment = Neutral
    /\ pc = "avg_pose_loop"
          => (optimizer.image = idx /\ pose_adjustment = optimizer.steps)
    /\ pc = "avg_app_optimizer" => embedding_appearance_eval = <<Neutral>>
    /\ pc = "avg_app_loop"
          => (optimizer.image = idx
              /\ embedding_appearance_eval = <<optimizer.steps>>)

C2_Witness ==
    /\ pc = "avg_pose_loop"
    /\ idx = 1
    /\ it = 0
    /\ prev_final.pose > Neutral
    /\ pose_adjustment = Neutral

\* C3 (as claimed): the final metric render of every image consumes the ray
\* bundle and the batch fetched at native resolution (scale factor 1.0).
C3_FinalRenderNative ==
    (InAverage /\ pc = "avg_loop" /\ idx > 0)
    => /\ rendered.bundle = native_fetch[1]
       /\ rendered.batch = native_fetch[2]
       /\ rendered.bundle.scale_factor = One

\* C4 (as claimed): get_eval_loss_dict returns in the mode it was entered in.
C4_ModePreserved ==
    (op \in EvalLossOps /\ pc = "done") => training = mode_at_call

\* C4 (amended): get_eval_loss_dict always returns in trainable mode, which
\* is the mode it was entered in exactly when it was entered in trainable mode.
C4_ReturnsTrainable ==
    (op \in EvalLossOps /\ pc = "done")
    => (training = TRUE /\ (training = mode_at_call <=> mode_at_call = TRUE))

C4_Witness ==
    /\ op \in EvalLossOps
    /\ pc = "done"
    /\ mode_at_call = FALSE
    /\ training = TRUE

InjectedKeys == {"image_idx", "num_rays", "num_rays_per_sec", "fps"}

OfModel(keys) == (DOMAIN rendered.metrics) \cap keys

\* C5 (as claimed): in both image-evaluation operations a model metrics dict
\* holding any of the four keys makes the operation abort.
C5_AnyInjectedKeyAborts ==
    ((InAverage \/ InImage) /\ rendered.image # -1
        /\ OfModel(InjectedKeys) # {})
    => pc = "error"

\* C5 (amended): each operation aborts on the keys it injects itself
\* (image_idx, num_rays in get_eval_image_metrics_and_images;
\* num_rays_per_sec, fps in get_average_eval_image_metrics); every other key
\* of the model's dict, the other operation's two keys included, is kept with
\* the model's value.
C5_OwnInjectedKeyAborts ==
    /\ (InImage /\ rendered.image # -1
           /\ OfModel({"image_idx", "num_rays"}) # {})
          => (pc = "error" /\ err = "AssertionError")
    /\ (InAverage /\ rendered.image # -1
           /\ OfModel({"num_rays_per_sec", "fps"}) # {})
          => (pc = "error" /\ err = "AssertionError")
    /\ (InImage /\ pc \in {"img_return", "done"})
          => \A k \in DOMAIN rendered.metrics :
                result[1][k] = rendered.metrics[k]
    /\ (InAverage /\ pc = "avg_loop" /\ idx > 0)
          => \A k \in DOMAIN rendered.metrics :
                metrics_dict_list[idx][k] = rendered.metrics[k]

C5_Witness ==
    /\ InAverage
    /\ pc = "error"
    /\ err = "AssertionError"
    /\ "fps" \in DOMAIN rendered.metrics
    /\ metrics_dict_list # <<>>

SameKeys(dict_list) ==
    \A i \in 1..Len(dict_list) : DOMAIN dict_list[i] = DOMAIN dict_list[1]

RECURSIVE DenProduct(_)
DenProduct(values) ==
    IF values = <<>> THEN 1 ELSE Head(values)[2] * DenProduct(Tail(values))

RECURSIVE ScaledSum(_)
ScaledSum(values) ==
    IF values = <<>> THEN 0
    ELSE Head(values)[1] * DenProduct(Tail(values))
         + Head(values)[2] * ScaledSum(Tail(values))

\* m * N = sum of the values, over the common denominator
IsMeanOf(m, values) ==
    m[1] * Len(values) * DenProduct(values) = m[2] * ScaledSum(values)

\* C6: when the per-image metrics dicts share one key set, the returned
\* metrics dict has exactly that key set and holds, for every key, the
\* arithmetic mean of the N per-image values.
C6_ArithmeticMean ==
    (InAverage /\ pc = "done" /\ SameKeys(metrics_dict_list))
    => /\ Len(metrics_dict_list) = num_images
       /\ num_images > 0
       /\ \A i \in 1..num_images :
             DOMAIN result[1] = DOMAIN metrics_dict_list[i]
       /\ \A key \in DOMAIN result[1] :
             IsMeanOf(result[1][key],
                      [i \in 1..num_images |-> metrics_dict_list[i][key]])

C6_Witness ==
    /\ InAverage
    /\ pc = "done"
    /\ num_images = 2
    /\ metrics_dict_list[1]["psnr"] = <<20, 1>>
    /\ metrics_dict_list[2]["psnr"] = <<30, 1>>
    /\ result[1]["psnr"] = <<25, 1>>

\* C7: with return_imgs the returned images dict holds, for every key, a
\* stack of N entries whose i-th slice is the entry produced for the i-th
\* evaluated image.
C7_StackInOrder ==
    (InAverage /\ pc = "done" /\ return_imgs)
    => /\ Len(result) = 2
       /\ Len(images_dict_list) = num_images
       /\ SameKeys(images_dict_list)
             => DOMAIN result[2] = DOMAIN images_dict_list[num_images]
       /\ \A key \in DOMAIN result[2] :
             /\ DOMAIN result[2][key] = 1..num_images
             /\ \A i \in 1..num_images :
                   /\ result[2][key][i] = images_dict_list[i][key]
                   /\ result[2][key][i].image = i - 1
                   /\ result[2][key][i].name = key

C7_Witness ==
    /\ InAverage
    /\ pc = "done"
    /\ return_imgs
    /\ num_images = 2
    /\ "depth" \in DOMAIN result[2]
    /\ result[2]["depth"][2].image = 1

\* C8 (as claimed): the aggregation gives a result only for a non-empty list
\* of dicts that all have the same key set.
C8_AggregationFails ==
    (InAverage /\ pc = "done")
    => /\ num_images > 0
       /\ SameKeys(metrics_dict_list)
       /\ SameKeys(images_dict_list)

Loaded == load_pc = "loaded"

\* C9: in 'inference' mode the applied mapping holds none of the six pruned
\* keys and every other loaded entry with its value; in the other modes it
\* holds every loaded entry; it never holds anything else.
C9_InferencePrunes ==
    Loaded
    => /\ test_mode = "inference" => (DOMAIN applied) \cap PrunedKeys = {}
       /\ \A i \in DOMAIN loaded_state :
             LET name == StripMarker(loaded_state[i][1])
             IN  (test_mode # "inference" \/ name \notin PrunedKeys)
                 => (name \in DOMAIN applied
                     /\ applied[name] = loaded_state[i][2])
       /\ \A name \in DOMAIN applied :
             \E i \in DOMAIN loaded_state :
                name = StripMarker(loaded_state[i][1])

C9_Witness ==
    /\ Loaded
    /\ test_mode = "inference"
    /\ loaded_state =
          << << <<"module", "model", "w">>, 1 >>,
             << <<"datamanager", "train_camera_optimizer", "pose_adjustment">>,
                2 >> >>
    /\ applied = (<<"model", "w">> :> 1)

\* the name the claim gives a key: only a leading marker is removed
PrefixStripped(key) ==
    IF Len(key) > 1 /\ key[1] = "module" THEN Tail(key) ELSE key

\* C10 (as claimed): a key is applied with a leading 'module.' removed and
\* is otherwise applied under its original name.
C10_PrefixOnly ==
    (Loaded /\ test_mode # "inference")
    => DOMAIN applied =
          {PrefixStripped(loaded_state[i][1]) : i \in DOMAIN loaded_state}

\* positions of the components of a key that end an occurrence of 'module.'
Occurrences(key) == {i \in 1..(Len(key) - 1) : key[i] \in MarkerComponents}

\* name is key with every occurrence of the marker removed
StrippedTo(key, name) ==
    /\ Len(name) = Len(key) - Cardinality(Occurrences(key))
    /\ Occurrences(key) = {} => name = key
    /\ (Occurrences(key) = {1} /\ key[1] = "module") => name = Tail(key)
    /\ (Occurrences(key) # {} /\ key[Len(key)] \notin MarkerComponents)
          => name # key

\* C10 (amended): every occurrence of 'module.' found in a key is removed,
\* leading or not; a key whose only occurrence is a leading 'module.' loses
\* exactly that prefix, and a key without an occurrence keeps its name.
C10_EveryOccurrence ==
    Loaded
    => /\ Cardinality(DOMAIN applied) <= Len(loaded_state)
       /\ test_mode # "inference"
             => Cardinality(DOMAIN applied) = Len(loaded_state)
       /\ \A i \in DOMAIN loaded_state :
             \/ \E name \in DOMAIN applied :
                   /\ StrippedTo(loaded_state[i][1], name)
                   /\ applied[name] = loaded_state[i][2]
             \/ /\ test_mode = "inference"
                /\ \E name \in PrunedKeys : StrippedTo(loaded_state[i][1], name)

C10_Witness ==
    /\ Loaded
    /\ \E i \in DOMAIN loaded_state :
          loaded_state[i][1] = <<"_model", "module", "field", "w">>
    /\ <<"_model", "field", "w">> \in DOMAIN applied
    /\ <<"_model", "module", "field", "w">> \notin DOMAIN applied

\* ------------------------------------------------- per-image metrics dicts
\* C11 (as claimed): every per-image metrics dict of the two image operations
\* holds all four injected keys, image_idx being the index of the evaluated
\* image and num_rays being height * width.
C11_AllFourKeys ==
    /\ (InImage /\ pc \in {"img_return", "done"})
          => /\ InjectedKeys \subseteq DOMAIN result[1]
             /\ result[1]["image_idx"] = <<idx, 1>>
             /\ result[1]["num_rays"] = <<shape[1] * shape[2], 1>>
    /\ InAverage
          => \A i \in 1..Len(metrics_dict_list) :
                /\ InjectedKeys \subseteq DOMAIN metrics_dict_list[i]
                /\ metrics_dict_list[i]["image_idx"] = <<i - 1, 1>>
                /\ metrics_dict_list[i]["num_rays"]
                      = <<ImageShape(i - 1)[1] * ImageShape(i - 1)[2], 1>>

\* C11 (amended): the dict returned by get_eval_image_metrics_and_images is
\* the model's dict plus image_idx (the index of the evaluated image) and
\* num_rays (height * width), and nothing else; each dict accumulated by
\* get_average_eval_image_metrics is the model's dict plus num_rays_per_sec
\* and fps, and nothing else, so image_idx and num_rays appear there only
\* when the model supplied them.
C11_OwnKeysInjected ==
    /\ (InImage /\ pc \in {"img_return", "done"})
          => /\ DOMAIN result[1]
                   = DOMAIN rendered.metrics \cup {"image_idx", "num_rays"}
             /\ result[1]["image_idx"] = <<idx, 1>>
             /\ result[1]["num_rays"] = <<shape[1] * shape[2], 1>>
    /\ InAverage
          => \A i \in 1..Len(metrics_dict_list) :
                {"num_rays_per_sec", "fps"} \subseteq DOMAIN metrics_dict_list[i]
    /\ (InAverage /\ pc = "avg_loop" /\ idx > 0)
          => DOMAIN metrics_dict_list[idx]
                = DOMAIN rendered.metrics \cup {"num_rays_per_sec", "fps"}

C11_Witness ==
    /\ InImage
    /\ pc = "done"
    /\ idx = 1
    /\ result[1]["image_idx"] = <<1, 1>>
    /\ result[1]["num_rays"] = <<10, 1>>
    /\ "fps" \notin DOMAIN result[1]

\* C12 (as claimed): with t the time from the start of the native fetch to
\* the moment the final metrics are available, the dict of an h x w image
\* holds num_rays_per_sec = h * w / t and fps = 1 / t.
C12_TimedFromFetchStart ==
    (InAverage /\ pc = "avg_loop" /\ idx > 0)
    => LET t == RAdd(fetch_time, inner_elapsed)
           d == metrics_dict_list[idx]
       IN  /\ RMul(d["num_rays_per_sec"], t) = <<shape[1] * shape[2], 1>>
           /\ RMul(d["fps"], t) = One

\* C12 (amended): the clock is started after the native fetch has returned,
\* so t runs from there (through the optimization loops, if any) to the
\* moment the final metrics are available; with that t the dict of an h x w
\* image holds num_rays_per_sec = h * w / t and fps = 1 / t.
C12_TimedAfterFetch ==
    (InAverage /\ pc = "avg_loop" /\ idx > 0)
    => LET t == inner_elapsed
           d == metrics_dict_list[idx]
       IN  /\ t[1] > 0
           /\ RMul(d["num_rays_per_sec"], t) = <<shape[1] * shape[2], 1>>
           /\ RMul(d["fps"], t) = One
           /\ d["fps"] = Rat(d["num_rays_per_sec"][1],
                             d["num_rays_per_sec"][2] * shape[1] * shape[2])

\* 16 rays in 0.5 s: num_rays_per_sec = 32 and fps = 2
C12_Witness ==
    /\ InAverage
    /\ pc = "avg_loop"
    /\ idx = 1
    /\ shape = <<4, 4>>
    /\ inner_elapsed = <<1, 2>>
    /\ metrics_dict_list[1]["num_rays_per_sec"] = <<32, 1>>
    /\ metrics_dict_list[1]["fps"] = <<2, 1>>

\* ---------------------------------------------------------------- modes
\* C13 (as claimed): the two image operations return in inference mode.
C13_ReturnsInInference ==
    ((InImage \/ InAverage) /\ pc = "done") => training = FALSE

\* C13 (amended): the two image operations return in trainable mode,
\* whatever the mode they were entered in.
C13_ImageOpsReturnTrainable ==
    ((InImage \/ InAverage) /\ pc = "done") => training = TRUE

C13_Witness ==
    /\ InImage
    /\ pc = "done"
    /\ mode_at_call = FALSE
    /\ training = TRUE
    /\ rendered.training = FALSE

ModalOps ==
    EvalLossOps \cup {"get_eval_image_metrics_and_images",
                      "get_average_eval_image_metrics"}

CalledIn(f) == {calls[i].training : i \in {j \in 1..Len(calls) : calls[j].f = f}}

\* C15: get_eval_loss_dict returns in trainable mode, and the eval batch
\* fetch, the forward pass, the metrics and the loss computation of the call
\* are all made in inference mode.
C15_EvalLossInInference ==
    op \in EvalLossOps
    => /\ pc = "done" => training = TRUE
       /\ pc = "eval_loss_body" => training = FALSE
       /\ pc \in {"eval_loss_end", "done"}
             => \A f \in {"datamanager.next_eval", "model.forward",
                           "model.get_metrics_dict", "model.get_loss_dict"} :
                   CalledIn(f) = {FALSE}

C15_Witness ==
    /\ op = "VanillaPipeline.get_eval_loss_dict"
    /\ pc = "done"
    /\ mode_at_call = TRUE
    /\ training = TRUE
    /\ CalledIn("model.forward") = {FALSE}

\* ------------------------------------------------------- sampler alignment
TrainLossOps ==
    {"Pipeline.get_train_loss_dict", "VanillaPipeline.get_train_loss_dict"}

\* C16 (as claimed): with several workers, for every step, in Pipeline and in
\* VanillaPipeline, get_train_loss_dict(step) calls train_sampler.set_epoch(step)
\* before next_train(step) and get_eval_loss_dict(step) calls
\* eval_sampler.set_epoch(step) before next_eval(step).
C16_SamplerAlignedBeforeFetch ==
    /\ (world_size > 1 /\ op \in TrainLossOps /\ pc = "done")
          => /\ calls[1] = LossCall("train_sampler.set_epoch", step)
             /\ calls[2].f = "datamanager.next_train"
             /\ calls[2].step = step
             /\ sampler_epoch.train = step
    /\ (world_size > 1 /\ op \in EvalLossOps /\ pc \in {"eval_loss_end", "done"})
          => /\ calls[1].f = "eval_sampler.set_epoch"
             /\ calls[1].step = step
             /\ calls[2].f = "datamanager.next_eval"
             /\ calls[2].step = step
             /\ sampler_epoch.eval = step

\* -------------------------------------------------------- parameter groups
\* C17 (as claimed): get_param_groups returns every group of the data
\* manager and of the model under its own name, and never returns when a
\* name is provided by both.
C17_CollisionFails ==
    groups_pc = "returned"
    => /\ DOMAIN datamanager_params \cap DOMAIN model_params = {}
       /\ DOMAIN param_groups
             = DOMAIN datamanager_params \cup DOMAIN model_params
       /\ \A k \in DOMAIN datamanager_params :
             param_groups[k] = datamanager_params[k]
       /\ \A k \in DOMAIN model_params : param_groups[k] = model_params[k]

\* ------------------------------------------------------------ construction
SetUp(w) == ctor_pc[w] \in {"barrier", "constructed"}

\* C18: with several workers, a worker executes the barrier exactly once,
\* after its data manager and model are set up and the model is wrapped, and
\* no worker leaves __init__ before every worker has completed setup; with
\* one worker no barrier is executed and the model is not wrapped.
C18_BarrierOnceAfterSetup ==
    \A w \in Workers :
       /\ barriers[w] <= 1
       /\ barriers[w] = 1 <=> (world_size > 1 /\ SetUp(w))
       /\ wrapped[w] <=> (world_size > 1 /\ SetUp(w))
       /\ (world_size > 1 /\ ctor_pc[w] = "constructed")
             => \A v \in Workers : SetUp(v) /\ wrapped[v]
       /\ (world_size = 1 /\ ctor_pc[w] = "constructed")
             => (barriers[w] = 0 /\ ~wrapped[w])

C18_Witness ==
    /\ world_size = 3
    /\ ctor_pc[0] = "constructed"
    /\ ctor_pc[1] = "barrier"
    /\ ctor_pc[2] = "barrier"
    /\ \A w \in Workers : barriers[w] = 1 /\ wrapped[w]

\* ------------------------------------------------- test-time optimization
\* the step of an iteration, as the specification names it, a call belongs to
Phase(f) ==
    CASE f = "optimizer.zero_grad" -> "clear gradients"
      [] f = "datamanager.get_eval_image" -> "re-fetch"
      [] f = "model.get_outputs_for_camera_ray_bundle" -> "render"
      [] f \in {"model.get_metrics_dict", "model.get_loss_dict", "rgb_loss"}
            -> "compute loss"
      [] f = "backward" -> "backpropagate"
      [] f = "optimizer.step" -> "optimizer step"

Budget(flag, iters) == IF flag THEN iters ELSE 0

\* C19: for every image the pose loop takes exactly eval_num_pose_iters
\* optimizer steps and the appearance loop exactly eval_num_appearance_iters
\* (none when the flag is off); every pass clears the gradients, re-fetches
\* the running image at eval_image_scale_factor, renders, computes the loss,
\* backpropagates and steps, in that order; the optimizer of a loop is the
\* one constructed for the running image and the loop's parameter group.
C19_FixedBudgetInOrder ==
    InAverage
    => /\ pc = "avg_render"
             => /\ steps_done.pose
                      = Budget(config.eval_optimize_cameras,
                               config.eval_num_pose_iters)
                /\ steps_done.appearance
                      = Budget(config.eval_optimize_appearance,
                               config.eval_num_appearance_iters)
       /\ pc = "avg_pose_loop"
             => /\ optimizer.target = "pose"
                /\ optimizer.image = idx
                /\ optimizer.steps = it
                /\ steps_done.pose = it
                /\ it <= config.eval_num_pose_iters
       /\ pc = "avg_app_loop"
             => /\ optimizer.target = "appearance"
                /\ optimizer.image = idx
                /\ optimizer.steps = it
                /\ steps_done.appearance = it
                /\ it <= config.eval_num_appearance_iters
       /\ (pc \in {"avg_pose_loop", "avg_app_loop"} /\ it > 0)
             => /\ [i \in 1..Len(calls) |-> Phase(calls[i].f)]
                      = <<"clear gradients", "re-fetch", "render",
                          "compute loss", "compute loss", "backpropagate",
                          "optimizer step">>
                /\ \A i \in 1..Len(calls) :
                      /\ calls[i].image = idx
                      /\ calls[i].scale_factor = config.eval_image_scale_factor
                /\ camera_ray_bundle
                      = get_eval_image(idx, config.eval_image_scale_factor)

C19_Witness ==
    /\ InAverage
    /\ pc = "avg_render"
    /\ idx = 1
    /\ steps_done = [pose |-> 2, appearance |-> 1]
    /\ optimizer = [target |-> "appearance", init_val |-> Neutral,
                    steps |-> 1, image |-> 1]
    /\ calls = AppIterCalls(1, config.eval_image_scale_factor)

\* C20: in get_average_eval_image_metrics the model is in trainable mode
\* exactly between the self.train() and the self.eval() of a pose or an
\* appearance optimization block, so every final render and metric
\* computation runs in inference mode and under no_grad, whatever the two
\* flags are.
C20_TrainableOnlyWhileOptimizing ==
    (InAverage /\ pc \notin {"idle", "done", "error"})
    => /\ training <=> pc \in {"avg_pose_loop", "avg_app_reinit",
                                "avg_app_optimizer", "avg_app_loop"}
       /\ rendered.image # -1
             => (rendered.training = FALSE /\ rendered.no_grad)

C20_Witness ==
    /\ InAverage
    /\ pc = "avg_loop"
    /\ idx = 2
    /\ steps_done.pose > 0
    /\ steps_done.appearance > 0
    /\ rendered.image = 1
    /\ rendered.training = FALSE
    /\ training = FALSE

\* ------------------------------------------------- appearance optimization
\* the left or the right half of an image of the given width
HalfOf(s, image_width) ==
    IF s = 0
    THEN 0..((image_width \div 2) - 1)
    ELSE (image_width \div 2)..(image_width - 1)

\* C21 (as claimed): the side is chosen once per image before the loop and
\* every pass computes its loss on exactly that half of the ground truth and
\* of the prediction it compares.
C21_LossOnChosenHalf ==
    (InAverage /\ pc = "avg_app_loop" /\ it > 0)
    => /\ loss_cols.side = side
       /\ loss_cols.cols = HalfOf(side, loss_cols.width)

\* C22: once the appearance optimization of an image has completed, after
\* any number of passes, the eval appearance embedding is None: it exists
\* only from its initialization to the end of that image's loop, so the
\* final render, the next image, the return and any later call find None.
C22_EmbeddingDiscarded ==
    pc # "error"
    => (embedding_appearance_eval # <<>>
           <=> (InAverage /\ pc \in {"avg_app_optimizer", "avg_app_loop"}))

C22_Witness ==
    /\ InAverage
    /\ pc = "avg_pose_loop"
    /\ idx = 1
    /\ prev_final.appearance = 2
    /\ embedding_appearance_eval = <<>>

\* ------------------------------------------------------ order over images
PosePcs ==
    {"avg_pose_reinit", "avg_pose_optimizer", "avg_pose_rescale",
     "avg_pose_loop"}

AppPcs ==
    {"avg_app_rescale", "avg_app_reinit", "avg_app_optimizer", "avg_app_loop"}

\* C23: the images are processed one after another in index order, each
\* once: while image idx is being processed exactly the dicts of images
\* 0..idx-1 have been appended, in that order; the pose block of an image is
\* complete before its appearance block starts and both are complete before
\* its final render; the operation returns with lists of length N.
C23_StrictlySequential ==
    InAverage
    => /\ pc \in PosePcs \cup AppPcs \cup {"avg_loop", "avg_render", "done"}
             => /\ idx <= num_images
                /\ Len(metrics_dict_list) = idx
                /\ Len(images_dict_list) = idx
                /\ \A i \in 1..Len(images_dict_list) :
                      \A k \in DOMAIN images_dict_list[i] :
                         images_dict_list[i][k].image = i - 1
       /\ pc \in PosePcs \cup AppPcs \cup {"avg_render"}
             => /\ idx < num_images
                /\ native_fetch[1].idx = idx
                /\ camera_ray_bundle.idx = idx
       /\ pc \in PosePcs
             => (config.eval_optimize_cameras /\ steps_done.appearance = 0)
       /\ pc \in AppPcs \cup {"avg_render"}
             => steps_done.pose = Budget(config.eval_optimize_cameras,
                                        config.eval_num_pose_iters)
       /\ pc = "avg_render"
             => steps_done.appearance
                   = Budget(config.eval_optimize_appearance,
                            config.eval_num_appearance_iters)
       /\ pc = "done"
             => (idx = num_images /\ Len(metrics_dict_list) = num_images)

C23_Witness ==
    /\ InAverage
    /\ pc = "done"
    /\ num_images = 2
    /\ Len(metrics_dict_list) = 2
    /\ steps_done.pose > 0
    /\ steps_done.appearance > 0
    /\ \A k \in DOMAIN images_dict_list[2] : images_dict_list[2][k].image = 1

\* ------------------------------------------------ training diagnostics
Diagnostics == {"camera_opt_translation", "camera_opt_rotation"}

Position(f) == CHOOSE i \in 1..Len(calls) : calls[i].f = f

\* C24 (as claimed): get_train_loss_dict injects the two diagnostics exactly
\* when the data manager has the train camera group, before the loss dict is
\* computed from the metrics, and never returns after injecting over a key
\* the model's metrics dict already held.
C24_DiagnosticsCollisionFatal ==
    (op = "VanillaPipeline.get_train_loss_dict" /\ pc = "done")
    => /\ camera_opt_param_group \in DOMAIN datamanager_params
             => /\ Diagnostics \subseteq DOMAIN result[3]
                /\ result[2].computed_from = result[3]
                /\ Position("metrics_dict[camera_opt_rotation] =")
                      < Position("model.get_loss_dict")
                /\ DOMAIN rendered.metrics \cap Diagnostics = {}
       /\ camera_opt_param_group \notin DOMAIN datamanager_params
             => result[3] = rendered.metrics

\* ---------------------------------------------------- benchmark dispatcher
AllJobs == JobList(capture_names, table_rows)

Executions(job) ==
    {t \in 1..Len(ran) : thread_pc[t] # "started" /\ ran[t].job = job}

\* C25 (as claimed): every thread passes to run_command the command built
\* when it was created, GPU included, under every interleaving; when main
\* returns every job has been executed exactly once.
C25_EachJobOnceOnItsGpu ==
    /\ \A t \in 1..Len(thread_pc) :
          thread_pc[t] # "started" => ran[t] = started[t]
    /\ main_pc = "exit"
          => \A k \in 1..Len(AllJobs) : Cardinality(Executions(AllJobs[k])) = 1

AllFinished == \A t \in 1..Len(thread_pc) : thread_pc[t] = "finished"

\* C26: if every run_command returns and a poll finds a GPU again and again
\* while jobs remain, main returns, with the job list empty and every thread
\* it started finished and joined; a GPU poll is made only when every
\* thread started before it has finished; a poll that reports no GPU starts
\* no thread and leaves the job list as it was.
C26_DispatcherTerminates ==
    /\ <>(main_pc = "exit")
    /\ [](main_pc = "exit"
             => (jobs = <<>> /\ AllFinished
                 /\ Len(thread_pc) = Len(AllJobs)))
    /\ [][(main_pc = "outer" /\ main_pc' = "inner") => AllFinished]_vars
    /\ []((main_pc \in {"inner", "join"} /\ last_poll = <<>>)
             => (threads = <<>> /\ jobs = jobs_at_poll))

\* four jobs done, the last of them in a round of its own
C26_Witness ==
    /\ main_pc = "exit"
    /\ Len(thread_pc) = 4
    /\ AllFinished
    /\ jobs = <<>>
    /\ Len(last_poll) = 1
    /\ Len(threads) = 1


====
